---- MODULE Spec2Model ----
(***************************************************************************)
(* Recipe extraction (scripts/parse-recetas.js) and ingredient aggregation *)
(* (the quantity utilities) of the meal planner, as state machines.        *)
(*                                                                         *)
(* Text is modelled as sequences of one-character strings, so that the     *)
(* regular expressions, trims, splits and joins of the code are computed   *)
(* rather than assumed.  Amounts are exact decimals scaled by AmountScale. *)
(***************************************************************************)
EXTENDS Integers, Sequences, FiniteSets, TLC

VARIABLES
  tLine, tResult,                       \* isRecipeTitle: argument, result
  label, parsed,                        \* parseQuantityFromLabel: argument, result
  ingredientLists, grouped, result, cpc,\* combineIngredients
  consumed, modeHist, inIndex, currentRecipe, recipes, processedRecipes, ppc, \* parseRecipes + main
  content, pos, ingredientLines, methodLines, foundBlankLine, inMethod, bucketHist, separated \* separateContent

varsTitle == <<tLine, tResult>>
varsLabel == <<label, parsed>>
varsCombine == <<ingredientLists, grouped, result, cpc>>
varsParse == <<consumed, modeHist, inIndex, currentRecipe, recipes, processedRecipes, ppc>>
varsSep == <<content, pos, ingredientLines, methodLines, foundBlankLine, inMethod, bucketHist, separated>>
vars == <<varsTitle, varsLabel, varsCombine, varsParse, varsSep>>

\* null / undefined, and a value that is present
None == <<>>
Some(x) == <<x>>

(***************************************************************************)
(* Characters and the string primitives of JavaScript the code uses.       *)
(***************************************************************************)
UpperAZ == <<"A","B","C","D","E","F","G","H","I","J","K","L","M","N","O","P","Q","R","S","T","U","V","W","X","Y","Z">>
LowerAZ == <<"a","b","c","d","e","f","g","h","i","j","k","l","m","n","o","p","q","r","s","t","u","v","w","x","y","z">>
UpperAccented == <<"Á","É","Í","Ó","Ú","Ñ","Ü">>
LowerAccented == <<"á","é","í","ó","ú","ñ","ü">>
\* the accented letters without their combining mark (NFD, then [̀-ͯ] removed)
LowerUnaccented == <<"a","e","i","o","u","n","u">>

Range(s) == {s[i] : i \in 1..Len(s)}
AsciiUpper == Range(UpperAZ)
AsciiLower == Range(LowerAZ)
Digits == {"0","1","2","3","4","5","6","7","8","9"}
WhiteSpace == {" ", "\t", "\n", "\r"}
\* \w of a regular expression without the u flag
WordChars == AsciiUpper \cup AsciiLower \cup Digits \cup {"_"}

UpperAll == UpperAZ \o UpperAccented
LowerAll == LowerAZ \o LowerAccented
LowerMap == [c \in Range(UpperAll) |-> LowerAll[CHOOSE i \in 1..Len(UpperAll) : UpperAll[i] = c]]

\* String.prototype.toLowerCase, one character
LowerChar(c) == IF c \in DOMAIN LowerMap THEN LowerMap[c] ELSE c
toLowerCase(s) == [i \in 1..Len(s) |-> LowerChar(s[i])]

AllIn(s, a, b, S) == \A i \in a..b : s[i] \in S

\* String.prototype.trim
trim(s) ==
  IF AllIn(s, 1, Len(s), WhiteSpace) THEN <<>>
  ELSE LET a == CHOOSE i \in 1..Len(s) : s[i] \notin WhiteSpace /\ AllIn(s, 1, i - 1, WhiteSpace)
           b == CHOOSE i \in 1..Len(s) : s[i] \notin WhiteSpace /\ AllIn(s, i + 1, Len(s), WhiteSpace)
       IN  SubSeq(s, a, b)

\* s.startsWith(p)
startsWith(s, p) == Len(s) >= Len(p) /\ SubSeq(s, 1, Len(p)) = p

\* s.includes(c) for a single character c
includes(s, c) == \E i \in 1..Len(s) : s[i] = c

RECURSIVE Concat(_)
\* the concatenation of a sequence of strings
Concat(ss) == IF ss = <<>> THEN <<>> ELSE Head(ss) \o Concat(Tail(ss))

RECURSIVE join(_, _)
\* Array.prototype.join
join(ss, sep) ==
  IF ss = <<>> THEN <<>>
  ELSE IF Len(ss) = 1 THEN ss[1]
  ELSE ss[1] \o sep \o join(Tail(ss), sep)

\* s.split('\n'): the pieces between consecutive newlines
splitLines(s) ==
  LET breaks == {0, Len(s) + 1} \cup {i \in 1..Len(s) : s[i] = "\n"}
      nth(k) == CHOOSE b \in breaks : Cardinality({x \in breaks : x < b}) = k
  IN  [k \in 1..(Cardinality(breaks) - 1) |-> SubSeq(s, nth(k - 1) + 1, nth(k) - 1)]

(***************************************************************************)
(* scripts/parse-recetas.js: line classification                           *)
(***************************************************************************)
\* /·\s*\d+\s*$/.test(line)
isIndexEntry(line) ==
  \E i \in 1..Len(line) : \E j \in (i + 1)..Len(line) : \E k \in j..Len(line) :
    /\ line[i] = "·"
    /\ AllIn(line, i + 1, j - 1, WhiteSpace)
    /\ AllIn(line, j, k, Digits)
    /\ AllIn(line, k + 1, Len(line), WhiteSpace)

RECURSIVE SkipClass(_, _, _)
\* first position at or after p that holds no character of X (a greedy X*)
SkipClass(s, p, X) == IF p <= Len(s) /\ s[p] \in X THEN SkipClass(s, p + 1, X) ELSE p
SkipSpace(s, p) == SkipClass(s, p, WhiteSpace)

\* position of the first double quote at or after p, 0 when there is none
RECURSIVE NextQuote(_, _)
NextQuote(s, p) == IF p > Len(s) THEN 0 ELSE IF s[p] = "\"" THEN p ELSE NextQuote(s, p + 1)

\* /\s*XE\s*"[^"]*"\s*/ matched at position p: the position after the match, 0 when
\* it does not match there
XEMarkerEnd(s, p) ==
  LET x == SkipSpace(s, p)
      q == SkipSpace(s, x + 2)
      c == NextQuote(s, q + 1)
  IN  IF x + 1 <= Len(s) /\ s[x] = "X" /\ s[x + 1] = "E" /\ q <= Len(s) /\ s[q] = "\"" /\ c # 0
      THEN SkipSpace(s, c + 1)
      ELSE 0

RECURSIVE StripFrom(_, _)
StripFrom(s, p) ==
  IF p > Len(s) THEN <<>>
  ELSE IF XEMarkerEnd(s, p) # 0 THEN StripFrom(s, XEMarkerEnd(s, p))
  ELSE <<s[p]>> \o StripFrom(s, p + 1)
\* s.replace(/\s*XE\s*"[^"]*"\s*/g, '')
stripXE(s) == StripFrom(s, 1)

IsUpperLetter(c) == c \in Range(UpperAll)
IsLowerLetter(c) == c \in Range(LowerAll)

\* isRecipeTitle with the ratio compared strictly: more than 70% upper case
isRecipeTitle_strictRatio(line) ==
  LET cleaned == trim(stripXE(line))
      upperCount == Len(SelectSeq(cleaned, IsUpperLetter))
      lowerCount == Len(SelectSeq(cleaned, IsLowerLetter))
  IN  /\ Len(cleaned) >= 3
      /\ ~isIndexEntry(line)
      /\ upperCount * 10 > 7 * (upperCount + lowerCount)

TitleMinLength == 3
\* the 0.7 of the code, as the ratio TitleRatioNum / TitleRatioDen
TitleRatioNum == 7
TitleRatioDen == 10

isRecipeTitle(line) ==
  LET cleaned == trim(stripXE(line))
      letters == SelectSeq(cleaned, LAMBDA c : IsUpperLetter(c) \/ IsLowerLetter(c) \/ c = " ")
      upperCount == Len(SelectSeq(letters, IsUpperLetter))
      lowerCount == Len(SelectSeq(letters, IsLowerLetter))
  IN  IF Len(cleaned) < TitleMinLength THEN FALSE
      ELSE IF isIndexEntry(line) THEN FALSE
      ELSE upperCount > 0
           /\ upperCount * TitleRatioDen >= TitleRatioNum * (upperCount + lowerCount)

RECURSIVE CollapseRuns(_, _, _)
\* s.replace(/X+/g, r) for a character class X
CollapseRuns(s, X, r) ==
  IF s = <<>> THEN <<>>
  ELSE IF Head(s) \in X
       THEN r \o CollapseRuns(SubSeq(s, SkipClass(s, 1, X), Len(s)), X, r)
       ELSE <<Head(s)>> \o CollapseRuns(Tail(s), X, r)

cleanTitle(title) == trim(CollapseRuns(stripXE(title), WhiteSpace, << " " >>))

\* normalize('NFD') followed by the removal of the combining marks
StripAccent(c) ==
  IF \E i \in 1..Len(LowerAccented) : LowerAccented[i] = c
  THEN LowerUnaccented[CHOOSE i \in 1..Len(LowerAccented) : LowerAccented[i] = c]
  ELSE c

slugify(title) ==
  LET lowered == toLowerCase(title)
      plain == [i \in 1..Len(lowered) |-> StripAccent(lowered[i])]
      kept == SelectSeq(plain, LAMBDA c : c \in AsciiLower \cup Digits \cup WhiteSpace \cup {"-"})
      hyphened == CollapseRuns(kept, WhiteSpace, << "-" >>)
      collapsed == CollapseRuns(hyphened, {"-"}, << "-" >>)
      a == IF collapsed # <<>> /\ Head(collapsed) = "-" THEN 2 ELSE 1
      b == IF collapsed # <<>> /\ collapsed[Len(collapsed)] = "-" THEN Len(collapsed) - 1 ELSE Len(collapsed)
  IN  SubSeq(collapsed, a, b)

(***************************************************************************)
(* scripts/parse-recetas.js: looksLikeIngredient                           *)
(***************************************************************************)
MethodVerbs ==
  { <<"c", "o", "c", "i", "n", "a", "r">>, <<"f", "r", "e", "í", "r">>, <<"h", "e", "r", "v", "i", "r">>, <<"m", "e", "z", "c", "l", "a", "r">>, <<"a", "g", "r", "e", "g", "a", "r">>, <<"a", "ñ", "a", "d", "i", "r">>, <<"p", "o", "n", "e", "r">>,
    <<"d", "e", "j", "a", "r">>, <<"p", "r", "e", "p", "a", "r", "a", "r">>, <<"c", "a", "l", "e", "n", "t", "a", "r">>, <<"c", "o", "r", "t", "a", "r">>, <<"l", "i", "c", "u", "a", "r">>, <<"b", "a", "t", "i", "r">>, <<"s", "e", "r", "v", "i", "r">>,
    <<"r", "e", "t", "i", "r", "a", "r">>, <<"t", "a", "p", "a", "r">>, <<"h", "o", "r", "n", "e", "a", "r">>, <<"p", "r", "e", "c", "a", "l", "e", "n", "t", "a", "r">>, <<"s", "a", "z", "o", "n", "a", "r">>, <<"c", "o", "n", "d", "i", "m", "e", "n", "t", "a", "r">>,
    <<"e", "s", "p", "o", "l", "v", "o", "r", "e", "a", "r">>, <<"v", "a", "c", "i", "a", "r">>, <<"u", "n", "i", "r">>, <<"d", "e", "r", "r", "e", "t", "i", "r">>, <<"d", "o", "r", "a", "r">>, <<"s", "a", "l", "t", "e", "a", "r">>,
    <<"r", "e", "v", "o", "l", "v", "e", "r">>, <<"c", "o", "l", "a", "r">>, <<"r", "a", "l", "l", "a", "r">>, <<"p", "i", "c", "a", "r">> }

MeasurementUnits ==
  { <<"t">>, <<"c", "h">>, <<"t", "a", "z", "a">>, <<"t", "a", "z", "a", "s">>, <<"g", "r", "m">>, <<"g", "r", "m", "s">>, <<"g", "r", "a", "m", "o">>, <<"g", "r", "a", "m", "o", "s">>, <<"k", "g">>,
    <<"m", "l">>, <<"l", "i", "t", "r", "o">>, <<"c", "u", "c", "h", "a", "r", "a", "d", "a">>, <<"c", "u", "c", "h", "a", "r", "a", "d", "i", "t", "a">>, <<"p", "i", "z", "c", "a">>, <<"u", "n", "i", "d", "a", "d">>, <<"u", "n", "i", "d", "a", "d", "e", "s">>,
    <<"p", "c", "s">>, <<"d", "i", "e", "n", "t", "e">>, <<"d", "i", "e", "n", "t", "e", "s">>, <<"r", "a", "m", "i", "t", "a">>, <<"r", "a", "m", "i", "t", "a", "s">>, <<"h", "o", "j", "a">>, <<"h", "o", "j", "a", "s">>,
    <<"r", "e", "b", "a", "n", "a", "d", "a">>, <<"r", "e", "b", "a", "n", "a", "d", "a", "s">>, <<"t", "a", "j", "a", "d", "a">>, <<"t", "a", "j", "a", "d", "a", "s">>, <<"r", "o", "d", "a", "j", "a">>, <<"r", "o", "d", "a", "j", "a", "s">> }

\* the characters beyond Latin-1 are named: U+2153, U+2154 and the bullet U+2022
OneThird == "1/3"
TwoThirds == "2/3"
Bullet == "bullet"
FractionGlyphs == {"½", "¼", "¾", OneThird, TwoThirds}
BulletChars == Digits \cup {Bullet, "-", "*"}

IngredientMaxLength == 80
ShortLineLength == 50

\* \b at position p, between s[p - 1] and s[p]
WordBoundary(s, p) ==
  (p - 1 >= 1 /\ s[p - 1] \in WordChars) # (p <= Len(s) /\ s[p] \in WordChars)

\* the lower-case word w stands at position p of s, case ignored (the i flag)
WordAt(s, p, w) ==
  /\ p + Len(w) - 1 <= Len(s)
  /\ \A k \in 1..Len(w) : LowerChar(s[p + k - 1]) = w[k]

\* /\b(cocinar|...|picar)\b/i.test(s)
methodVerbsTest(s) ==
  \E p \in 1..Len(s) :
    /\ WordBoundary(s, p)
    /\ \E w \in MethodVerbs : WordAt(s, p, w) /\ WordBoundary(s, p + Len(w))

\* /\b(\d+|<a fraction glyph>)\s*(T|CH|ch|taza|...|rodajas?)\b/i.test(s)
measurementsTest(s) ==
  \E p \in 1..Len(s) :
    /\ WordBoundary(s, p)
    /\ s[p] \in Digits \cup FractionGlyphs
    /\ LET e == IF s[p] \in Digits THEN SkipClass(s, p, Digits) ELSE p + 1
           u == SkipSpace(s, e)
       IN  \E w \in MeasurementUnits : WordAt(s, u, w) /\ WordBoundary(s, u + Len(w))

looksLikeIngredient(line) ==
  LET trimmed == trim(line)
  IN  IF trimmed = <<>> THEN FALSE
      ELSE IF Len(trimmed) > IngredientMaxLength THEN FALSE
      ELSE IF methodVerbsTest(trimmed) THEN FALSE
      ELSE IF trimmed[1] \in BulletChars THEN TRUE
      ELSE IF measurementsTest(trimmed) THEN TRUE
      ELSE IF Len(trimmed) < ShortLineLength /\ ~includes(trimmed, ".") THEN TRUE
      ELSE FALSE

(***************************************************************************)
(* scripts/parse-recetas.js: separateContent                               *)
(***************************************************************************)
MinIngredientLines == 2
MinMethodLines == 1

\* the locals of separateContent before its loop
SepStart == [ingredientLines |-> <<>>, methodLines |-> <<>>, foundBlankLine |-> FALSE, inMethod |-> FALSE]

\* InMethodNow deciding the section anew for every line after a blank one
InMethodNow_perLine(st, trimmed) ==
  IF st.foundBlankLine THEN ~looksLikeIngredient(trimmed) ELSE st.inMethod

\* inMethod as the bucket choice reads it: after a blank line, a line that is no
\* ingredient opens the method section
InMethodNow(st, trimmed) ==
  IF st.foundBlankLine /\ ~st.inMethod /\ ~looksLikeIngredient(trimmed) THEN TRUE ELSE st.inMethod

\* SepLine with a blank line after the ingredients opening the method section by itself
SepLine_blankSwitches(st, line) ==
  LET trimmed == trim(line)
  IN  IF trimmed = <<>>
      THEN IF Len(st.ingredientLines) > 0 /\ ~st.inMethod
           THEN [st EXCEPT !.foundBlankLine = TRUE, !.inMethod = TRUE]
           ELSE st
      ELSE IF st.inMethod \/ ~looksLikeIngredient(trimmed)
      THEN [st EXCEPT !.inMethod = TRUE, !.methodLines = Append(@, trimmed)]
      ELSE [st EXCEPT !.ingredientLines = Append(@, trimmed)]

\* one iteration of the loop of separateContent, on the locals st
SepLine(st, line) ==
  LET trimmed == trim(line)
      inMethod1 == InMethodNow(st, trimmed)
  IN  IF trimmed = <<>>
      THEN IF Len(st.ingredientLines) > 0 /\ ~st.inMethod
           THEN [st EXCEPT !.foundBlankLine = TRUE]
           ELSE st
      ELSE IF inMethod1
      THEN [st EXCEPT !.inMethod = TRUE, !.methodLines = Append(@, trimmed)]
      ELSE IF looksLikeIngredient(trimmed)
      THEN [st EXCEPT !.ingredientLines = Append(@, trimmed)]
      ELSE [st EXCEPT !.inMethod = TRUE, !.methodLines = Append(@, trimmed)]

\* SepResult joining the method lines like the ingredient lines, by one newline
SepResult_singleNewline(text, st) ==
  IF Len(st.ingredientLines) >= 2 /\ Len(st.methodLines) >= 1
  THEN [ingredientes |-> join(st.ingredientLines, <<"\n">>), metodo |-> join(st.methodLines, <<"\n">>)]
  ELSE [content |-> trim(text)]

\* the return value of separateContent, from the locals after the loop
SepResult(text, st) ==
  LET hasIngredients == Len(st.ingredientLines) >= MinIngredientLines
      hasMethod == Len(st.methodLines) >= MinMethodLines
  IN  IF hasIngredients /\ hasMethod
      THEN [ingredientes |-> join(st.ingredientLines, <<"\n">>),
            metodo |-> join(st.methodLines, <<"\n", "\n">>)]
      ELSE [content |-> trim(text)]

RECURSIVE SepLoop(_, _)
SepLoop(st, lines) == IF lines = <<>> THEN st ELSE SepLoop(SepLine(st, Head(lines)), Tail(lines))

separateContent(text) == SepResult(text, SepLoop(SepStart, splitLines(text)))

(***************************************************************************)
(* scripts/parse-recetas.js: parseRecipes and main                         *)
(***************************************************************************)
IndexHeader == <<"I", "N", "D", "E", "X">>

\* the recipe that a title line opens
NewRecipe(trimmed) ==
  [title |-> cleanTitle(trimmed), slug |-> slugify(cleanTitle(trimmed)), rawContent |-> <<>>]

\* PushCurrent without the test of the body: every open recipe is kept
PushCurrent_keepBlank(rs, cur) == IF cur # None THEN Append(rs, cur[1]) ELSE rs

\* currentRecipe && currentRecipe.rawContent.trim(): push the open recipe
PushCurrent(rs, cur) ==
  IF cur # None /\ trim(cur[1].rawContent) # <<>> THEN Append(rs, cur[1]) ELSE rs

\* IndexSkips without the test for the INDEX header line
IndexSkips_noHeader(trimmed) ==
  \/ isIndexEntry(trimmed)
  \/ Len(trimmed) = 1 /\ trimmed[1] \in AsciiUpper
  \/ ~isRecipeTitle(trimmed)

\* the index section: the lines that are skipped while inIndex holds
IndexSkips(trimmed) ==
  \/ isIndexEntry(trimmed)
  \/ Len(trimmed) = 1 /\ trimmed[1] \in AsciiUpper
  \/ startsWith(trimmed, IndexHeader)
  \/ ~isRecipeTitle(trimmed)

\* AppendLine without the newline that ends the line
AppendLine_noNewline(raw, line) == raw \o line

\* currentRecipe.rawContent += line + '\n'
AppendLine(raw, line) == raw \o line \o <<"\n">>

\* one iteration of the loop of parseRecipes, on the locals st
ParseLine(st, line) ==
  LET trimmed == trim(line)
  IN  IF trimmed = <<>> /\ st.currentRecipe = None THEN st
      ELSE IF st.inIndex /\ IndexSkips(trimmed) THEN st
      ELSE IF isRecipeTitle(trimmed)
      THEN [inIndex |-> FALSE,
            recipes |-> PushCurrent(st.recipes, st.currentRecipe),
            currentRecipe |-> Some(NewRecipe(trimmed))]
      ELSE IF st.currentRecipe # None
      THEN [st EXCEPT !.inIndex = FALSE,
                      !.currentRecipe = Some([st.currentRecipe[1] EXCEPT !.rawContent = AppendLine(@, line)])]
      ELSE [st EXCEPT !.inIndex = FALSE]

\* main: one processed recipe, the object { title, slug, ...separated }
ProcessRecipe(recipe) ==
  [title |-> recipe.title, slug |-> recipe.slug] @@ separateContent(recipe.rawContent)

(***************************************************************************)
(* Quantity utilities: parseQuantityFromLabel                              *)
(***************************************************************************)
\* amounts are decimals with at most three fractional digits, held as integers
\* scaled by AmountScale
AmountScale == 10 * 10 * 10

DigitValue(c) == CHOOSE n \in 0..9 : <<"0","1","2","3","4","5","6","7","8","9">>[n + 1] = c

RECURSIVE DigitsToNat(_)
\* parseInt of a string of decimal digits
DigitsToNat(ds) ==
  IF ds = <<>> THEN 0 ELSE DigitsToNat(SubSeq(ds, 1, Len(ds) - 1)) * 10 + DigitValue(ds[Len(ds)])

RECURSIVE Pow10(_)
Pow10(n) == IF n = 0 THEN 1 ELSE 10 * Pow10(n - 1)

parseInt(ds) == DigitsToNat(ds) * AmountScale
\* parseFloat of "<int>" or "<int>.<frac>"
parseFloat(int, frac) ==
  DigitsToNat(int) * AmountScale + (DigitsToNat(frac) * AmountScale) \div Pow10(Len(frac))

\* label.replace(/\s*x0$/i, '')
stripX0(s) ==
  IF Len(s) >= 2 /\ LowerChar(s[Len(s) - 1]) = "x" /\ s[Len(s)] = "0"
  THEN LET a == CHOOSE i \in 1..(Len(s) - 1) :
                  /\ AllIn(s, i, Len(s) - 2, WhiteSpace)
                  /\ (i = 1 \/ s[i - 1] \notin WhiteSpace)
       IN  SubSeq(s, 1, a - 1)
  ELSE s

ParenUnits == {<<"g">>, <<"k", "g">>, <<"m", "l">>, <<"l">>, <<"t", "s", "p">>, <<"t", "b", "s", "p">>, <<"p", "c">>, <<"p", "c", "s">>}

\* (\d+(?:\.\d+)?) matched at position p, where a digit stands: [int, frac, end],
\* end the position after the number
NumberAt(s, p) ==
  LET e == SkipClass(s, p, Digits)
      f == SkipClass(s, e + 1, Digits)
  IN  IF e <= Len(s) /\ s[e] = "." /\ f > e + 1
           THEN [int |-> SubSeq(s, p, e - 1), frac |-> SubSeq(s, e + 1, f - 1), end |-> f]
           ELSE [int |-> SubSeq(s, p, e - 1), frac |-> <<>>, end |-> e]

\* /\((\d+(?:\.\d+)?)\s*(g|kg|ml|l|tsp|tbsp|pcs?)\)/i matched at position p
ParenUnitAt(s, p) ==
  IF p + 1 > Len(s) \/ s[p] # "(" \/ s[p + 1] \notin Digits THEN None
  ELSE LET n == NumberAt(s, p + 1)
           u == SkipSpace(s, n.end)
           ends == {c \in u..Len(s) : s[c] = ")" /\ toLowerCase(SubSeq(s, u, c - 1)) \in ParenUnits}
       IN  IF ends = {} THEN None
           ELSE LET c == CHOOSE c \in ends : TRUE
                IN  Some([amount |-> parseFloat(n.int, n.frac), unit |-> toLowerCase(SubSeq(s, u, c - 1))])

\* /\((\d+(?:\.\d+)?)\)/i matched at position p
ParenNumAt(s, p) ==
  IF p + 1 > Len(s) \/ s[p] # "(" \/ s[p + 1] \notin Digits THEN None
  ELSE LET n == NumberAt(s, p + 1)
       IN  IF n.end <= Len(s) /\ s[n.end] = ")"
           THEN Some([amount |-> parseFloat(n.int, n.frac)])
           ELSE None

\* /x\s*(\d+)$/i matched at position p
XSuffixAt(s, p) ==
  IF p > Len(s) \/ LowerChar(s[p]) # "x" THEN None
  ELSE LET d == SkipSpace(s, p + 1)
       IN  IF d <= Len(s) /\ AllIn(s, d, Len(s), Digits)
           THEN Some([amount |-> parseInt(SubSeq(s, d, Len(s)))])
           ELSE None

\* /^(\d+)\s*x?\s+/i
LeadingNum(s) ==
  LET e == SkipClass(s, 1, Digits)
      q == SkipSpace(s, e)
  IN  IF e > 1 /\ (q > e \/ (q + 1 <= Len(s) /\ LowerChar(s[q]) = "x" /\ s[q + 1] \in WhiteSpace))
      THEN Some([amount |-> parseInt(SubSeq(s, 1, e - 1))])
      ELSE None

\* String.prototype.match of a pattern without the g flag: the leftmost match, from
\* the matches at every position
FirstMatch(at) ==
  IF \E p \in 1..Len(at) : at[p] # None
  THEN at[CHOOSE p \in 1..Len(at) : at[p] # None /\ \A q \in 1..(p - 1) : at[q] = None]
  ELSE None

\* parseQuantityFromLabel with the xN suffix tried before the parentheses
parseQuantityFromLabel_suffixFirst(lbl) ==
  LET cleanedLabel == stripX0(lbl)
      parenMatch == FirstMatch([p \in 1..Len(cleanedLabel) |-> ParenUnitAt(cleanedLabel, p)])
      parenNumMatch == FirstMatch([p \in 1..Len(cleanedLabel) |-> ParenNumAt(cleanedLabel, p)])
      xMatch == FirstMatch([p \in 1..Len(cleanedLabel) |-> XSuffixAt(cleanedLabel, p)])
      leadingNumMatch == LeadingNum(cleanedLabel)
  IN  IF xMatch # None
      THEN [amount |-> xMatch[1].amount, unit |-> <<"p", "c", "s">>, isPackBased |-> FALSE]
      ELSE IF parenMatch # None
      THEN [amount |-> parenMatch[1].amount, unit |-> parenMatch[1].unit, isPackBased |-> TRUE]
      ELSE IF parenNumMatch # None
      THEN [amount |-> parenNumMatch[1].amount, unit |-> <<"p", "c", "s">>, isPackBased |-> TRUE]
      ELSE IF leadingNumMatch # None
      THEN [amount |-> leadingNumMatch[1].amount, unit |-> <<"p", "c", "s">>, isPackBased |-> TRUE]
      ELSE [amount |-> 1 * AmountScale, unit |-> <<"p", "c", "s">>, isPackBased |-> FALSE]

parseQuantityFromLabel(lbl) ==
  LET cleanedLabel == stripX0(lbl)
      parenMatch == FirstMatch([p \in 1..Len(cleanedLabel) |-> ParenUnitAt(cleanedLabel, p)])
      parenNumMatch == FirstMatch([p \in 1..Len(cleanedLabel) |-> ParenNumAt(cleanedLabel, p)])
      xMatch == FirstMatch([p \in 1..Len(cleanedLabel) |-> XSuffixAt(cleanedLabel, p)])
      leadingNumMatch == LeadingNum(cleanedLabel)
  IN  IF parenMatch # None
      THEN [amount |-> parenMatch[1].amount, unit |-> parenMatch[1].unit, isPackBased |-> TRUE]
      ELSE IF parenNumMatch # None
      THEN [amount |-> parenNumMatch[1].amount, unit |-> <<"p", "c", "s">>, isPackBased |-> TRUE]
      ELSE IF xMatch # None
      THEN [amount |-> xMatch[1].amount, unit |-> <<"p", "c", "s">>, isPackBased |-> FALSE]
      ELSE IF leadingNumMatch # None
      THEN [amount |-> leadingNumMatch[1].amount, unit |-> <<"p", "c", "s">>, isPackBased |-> TRUE]
      ELSE [amount |-> 1 * AmountScale, unit |-> <<"p", "c", "s">>, isPackBased |-> FALSE]

(***************************************************************************)
(* Quantity utilities: units, display names, combineIngredients            *)
(***************************************************************************)
UpperMap == [c \in Range(LowerAll) |-> UpperAll[CHOOSE i \in 1..Len(LowerAll) : LowerAll[i] = c]]
\* String.prototype.toUpperCase, one character
UpperChar(c) == IF c \in DOMAIN UpperMap THEN UpperMap[c] ELSE c

\* name.charAt(0).toUpperCase() + name.slice(1)
getCleanDisplayName(name, lbl) ==
  IF name = <<>> THEN <<>> ELSE <<UpperChar(name[1])>> \o SubSeq(name, 2, Len(name))

\* the normalizeUnit of areUnitsCompatible
normalizeUnit(u) ==
  LET lower == toLowerCase(u)
  IN  IF lower \in {<<"p", "c">>, <<"p", "c", "s">>, <<"p", "i", "e", "c", "e">>, <<"p", "i", "e", "c", "e", "s">>} THEN <<"p", "c", "s">>
      ELSE IF lower \in {<<"g", "r", "a", "m">>, <<"g", "r", "a", "m", "s">>} THEN <<"g">>
      ELSE IF lower \in {<<"k", "i", "l", "o", "g", "r", "a", "m">>, <<"k", "i", "l", "o", "g", "r", "a", "m", "s">>} THEN <<"k", "g">>
      ELSE IF lower \in {<<"m", "i", "l", "l", "i", "l", "i", "t", "e", "r">>, <<"m", "i", "l", "l", "i", "l", "i", "t", "e", "r", "s">>, <<"m", "i", "l", "l", "i", "l", "i", "t", "r", "e">>} THEN <<"m", "l">>
      ELSE IF lower \in {<<"l", "i", "t", "e", "r">>, <<"l", "i", "t", "e", "r", "s">>, <<"l", "i", "t", "r", "e">>} THEN <<"l">>
      ELSE lower

areUnitsCompatible(unit1, unit2) == normalizeUnit(unit1) = normalizeUnit(unit2)

measuredUnits == {<<"g">>, <<"k", "g">>, <<"m", "l">>, <<"l">>, <<"t", "s", "p">>, <<"t", "b", "s", "p">>}

\* TotalAmount multiplying whatever the label is
TotalAmount_alwaysMultiply(q, quantity) == q.amount * quantity

\* totalAmount of one ingredient: the label amount times in_box when the label is
\* pack-based, in_box itself when it is count-based
TotalAmount(q, quantity) ==
  IF q.isPackBased THEN q.amount * quantity ELSE quantity * AmountScale

\* SameKey comparing the names without their case
SameKey_ignoreCase(a, b) == toLowerCase(a) = toLowerCase(b)

\* the keys of the Map grouped: strings, equal when they are the same string
SameKey(a, b) == a = b

\* the first loop of combineIngredients, one ingredient of one recipe: the groups
\* (a Map, in insertion order) with the ingredient's item pushed
GroupIngredient(groups, recipeTitle, ing) ==
  LET q == parseQuantityFromLabel(ing.label)
      totalAmount == TotalAmount(q, ing.quantity)
      item == [label |-> ing.label,
               imageUrl |-> ing.imageUrl,
               parsedAmount |-> totalAmount,
               unit |-> IF toLowerCase(q.unit) \in measuredUnits THEN q.unit ELSE <<"p", "c", "s">>,
               portionQuantity |-> ing.quantity,
               recipeTitle |-> recipeTitle]
      withKey == IF \E g \in 1..Len(groups) : SameKey(groups[g].name, ing.name)
                 THEN groups
                 ELSE Append(groups, [name |-> ing.name, items |-> <<>>])
  IN  [g \in 1..Len(withKey) |->
         IF SameKey(withKey[g].name, ing.name)
         THEN [withKey[g] EXCEPT !.items = Append(@, item)]
         ELSE withKey[g]]

RECURSIVE SumParsed_fromFirst(_)
\* SumParsed leaving the first item out of the sum
SumParsed_fromFirst(items) ==
  IF Len(items) <= 1 THEN 0
  ELSE SumParsed_fromFirst(SubSeq(items, 1, Len(items) - 1)) + items[Len(items)].parsedAmount

RECURSIVE SumParsed(_)
\* items.reduce((sum, item) => sum + item.parsedAmount, 0)
SumParsed(items) == IF items = <<>> THEN 0 ELSE SumParsed(SubSeq(items, 1, Len(items) - 1)) + items[Len(items)].parsedAmount

\* byUnit of one group: its normalized units in insertion order
UnitsOf(items) ==
  LET first == {i \in 1..Len(items) : \A j \in 1..(i - 1) : toLowerCase(items[j].unit) # toLowerCase(items[i].unit)}
      nth(k) == CHOOSE i \in first : Cardinality({x \in first : x < i}) = k - 1
  IN  [k \in 1..Cardinality(first) |-> toLowerCase(items[nth(k)].unit)]

\* one CombinedIngredient, from the items of one unit of one group
Row(name, displayName, unit, items) ==
  [name |-> name,
   displayName |-> displayName,
   quantities |-> [i \in 1..Len(items) |->
                     [amount |-> items[i].parsedAmount, unit |-> items[i].unit, originalLabel |-> items[i].label]],
   totalAmount |-> SumParsed(items),
   unit |-> unit,
   imageUrl |-> items[1].imageUrl,
   recipeCount |-> Cardinality({items[i].recipeTitle : i \in 1..Len(items)})]

\* the second loop of combineIngredients, one group: its rows
CombineGroup(group) ==
  LET units == UnitsOf(group.items)
      itemsOf(unit) == SelectSeq(group.items, LAMBDA it : toLowerCase(it.unit) = unit)
      suffix(unit) == <<" ", "(">> \o unit \o <<")">>
  IN  IF Len(units) = 1
      THEN << Row(group.name, getCleanDisplayName(group.name, itemsOf(units[1])[1].label), units[1], itemsOf(units[1])) >>
      ELSE [k \in 1..Len(units) |->
              Row(group.name \o suffix(units[k]),
                  getCleanDisplayName(group.name, itemsOf(units[k])[1].label) \o suffix(units[k]),
                  units[k], itemsOf(units[k]))]

\* localeCompare, as the root collation orders the characters of the model: space and
\* punctuation before digits before letters, a letter's case and accent breaking ties
CollationOrder == <<" ", "\t", "-", "*", ".", "(", ")">> \o <<"0", "1", "2", "3", "4", "5", "6", "7", "8", "9">> \o LowerAZ
PrimaryRank(c) ==
  LET base == StripAccent(LowerChar(c))
  IN  IF \E i \in 1..Len(CollationOrder) : CollationOrder[i] = base
      THEN CHOOSE i \in 1..Len(CollationOrder) : CollationOrder[i] = base
      ELSE 0
TieRank(c) == (IF c # StripAccent(c) \/ LowerChar(c) # StripAccent(LowerChar(c)) THEN 2 ELSE 0) + (IF IsUpperLetter(c) THEN 1 ELSE 0)

RECURSIVE LexLess(_, _)
\* lexicographic order on sequences of ranks
LexLess(a, b) ==
  IF a = <<>> THEN b # <<>>
  ELSE IF b = <<>> THEN FALSE
  ELSE IF Head(a) # Head(b) THEN Head(a) < Head(b)
  ELSE LexLess(Tail(a), Tail(b))

\* a.localeCompare(b) < 0
localeLess(a, b) ==
  LET pa == [i \in 1..Len(a) |-> PrimaryRank(a[i])]
      pb == [i \in 1..Len(b) |-> PrimaryRank(b[i])]
  IN  IF pa # pb THEN LexLess(pa, pb)
      ELSE LexLess([i \in 1..Len(a) |-> TieRank(a[i])], [i \in 1..Len(b) |-> TieRank(b[i])])

RECURSIVE sortRows(_)
\* result.sort((a, b) => a.displayName.localeCompare(b.displayName)), a stable sort
sortRows(rows) ==
  IF rows = <<>> THEN <<>>
  ELSE LET sorted == sortRows(SubSeq(rows, 1, Len(rows) - 1))
           last == rows[Len(rows)]
           \* the sorted rows that stay before the last one: those not greater than it
           k == Cardinality({i \in 1..Len(sorted) : ~localeLess(last.displayName, sorted[i].displayName)})
       IN  SubSeq(sorted, 1, k) \o <<last>> \o SubSeq(sorted, k + 1, Len(sorted))

\* the rows combineIngredients returns for the groups of its first loop
CombineAll(groups) == sortRows(Concat([g \in 1..Len(groups) |-> CombineGroup(groups[g])]))


(***************************************************************************)
(* Inputs                                                                  *)
(***************************************************************************)
\* all strings made of at most n pieces of T
Pieces(T, n) == UNION {[1..k -> T] : k \in 0..n}

IdleTitle == tLine = <<>> /\ tResult = None
IdleLabel == label = <<>> /\ parsed = None
IdleCombine == ingredientLists = <<>> /\ grouped = <<>> /\ result = None /\ cpc = "idle"
IdleParse ==
  /\ consumed = <<>> /\ modeHist = <<>> /\ inIndex = TRUE /\ currentRecipe = None
  /\ recipes = <<>> /\ processedRecipes = None /\ ppc = "idle"
IdleSep ==
  /\ content = <<>> /\ pos = 0 /\ ingredientLines = <<>> /\ methodLines = <<>>
  /\ foundBlankLine = FALSE /\ inMethod = FALSE /\ bucketHist = <<>> /\ separated = None

(***************************************************************************)
(* isRecipeTitle as parseRecipes calls it: on the trimmed line             *)
(***************************************************************************)
MaxTitlePieces == 4
TitlePieces == {<<"Á", "R", "B", "O", "L", "E", "S">>, <<"c", "o", "n">>, <<" ">>, <<"A", "J">>, <<"·">>, <<"1", "2">>, <<"X", "E", " ", "\"", "a", "\"">>, <<"X", "E">>, <<"\"">>}

InitTitle ==
  /\ \E ps \in Pieces(TitlePieces, MaxTitlePieces) : tLine = Concat(ps)
  /\ tResult = None
  /\ IdleLabel /\ IdleCombine /\ IdleParse /\ IdleSep

ClassifyLine ==
  /\ tResult = None
  /\ tResult' = Some(isRecipeTitle(trim(tLine)))
  /\ UNCHANGED <<tLine, varsLabel, varsCombine, varsParse, varsSep>>

NextTitle == ClassifyLine
SpecTitle == InitTitle /\ [][NextTitle]_vars

(***************************************************************************)
(* parseQuantityFromLabel                                                  *)
(***************************************************************************)
MaxLabelPieces == 3
LabelPieces == {<<"P", "o", "t", "a", "t", "o">>, <<" ">>, <<"(", "2", "5", "0", "g", ")">>, <<"(", "0", ".", "5", ")">>, <<"(", "2", " ", "P", "C", "S", ")">>, <<"x", "4">>, <<"2">>, <<"X", "0">>, <<"(", "1", ".", "5", "k", "g">>, <<")">>}

InitLabel ==
  /\ \E ps \in Pieces(LabelPieces, MaxLabelPieces) : label = Concat(ps)
  /\ parsed = None
  /\ IdleTitle /\ IdleCombine /\ IdleParse /\ IdleSep

ParseLabel ==
  /\ parsed = None
  /\ parsed' = Some(parseQuantityFromLabel(label))
  /\ UNCHANGED <<label, varsTitle, varsCombine, varsParse, varsSep>>

NextLabel == ParseLabel
SpecLabel == InitLabel /\ [][NextLabel]_vars

(***************************************************************************)
(* separateContent, one loop iteration per step                            *)
(***************************************************************************)
MaxBodyLines == 4
\* a line that begins with a quantity and is longer than IngredientMaxLength
LongLine == <<"2", " ", "t", "a", "z", "a", "s", " ", "d", "e", " ">> \o Concat([i \in 1..IngredientMaxLength \div 5 |-> <<"a", "g", "u", "a", " ">>]) \o <<"f", "i", "n">>
BodyLines ==
  { <<"2", " ", "t", "a", "z", "a", "s", " ", "d", "e", " ", "a", "g", "u", "a">>, <<" ", " ", "-", " ", "1", " ", "h", "u", "e", "v", "o", " ">>, <<"s", "a", "l", " ", "a", "l", " ", "g", "u", "s", "t", "o">>, <<" ", "\t">>,
    <<"H", "e", "r", "v", "i", "r", " ", "e", "l", " ", "a", "g", "u", "a", ".">>, <<"L", "i", "s", "t", "o", ".">>, LongLine }

\* a raw body as parseRecipes builds it: every line followed by a newline
RawBody(ls) == Concat([i \in 1..Len(ls) |-> ls[i] \o <<"\n">>])

SepLocals == [ingredientLines |-> ingredientLines, methodLines |-> methodLines,
              foundBlankLine |-> foundBlankLine, inMethod |-> inMethod]

\* main hands separateContent the bodies of the recipes parseRecipes kept: non-blank ones
InitSeparate ==
  /\ \E ls \in Pieces(BodyLines, MaxBodyLines) : content = RawBody(ls) /\ trim(content) # <<>>
  /\ pos = 0
  /\ ingredientLines = SepStart.ingredientLines /\ methodLines = SepStart.methodLines
  /\ foundBlankLine = SepStart.foundBlankLine /\ inMethod = SepStart.inMethod
  /\ bucketHist = <<>> /\ separated = None
  /\ IdleTitle /\ IdleLabel /\ IdleCombine /\ IdleParse

SeparateLine ==
  /\ separated = None
  /\ pos < Len(splitLines(content))
  /\ \E line \in {splitLines(content)[pos + 1]} : \E st \in {SepLine(SepLocals, line)} :
         /\ ingredientLines' = st.ingredientLines
         /\ methodLines' = st.methodLines
         /\ foundBlankLine' = st.foundBlankLine
         /\ inMethod' = st.inMethod
         /\ bucketHist' = Append(bucketHist,
              [line |-> line,
               bucket |-> IF Len(st.ingredientLines) > Len(ingredientLines) THEN "ingredient"
                          ELSE IF Len(st.methodLines) > Len(methodLines) THEN "method"
                          ELSE "neither",
               inMethod |-> st.inMethod])
  /\ pos' = pos + 1
  /\ UNCHANGED <<content, separated, varsTitle, varsLabel, varsCombine, varsParse>>

SeparateReturn ==
  /\ separated = None
  /\ pos = Len(splitLines(content))
  /\ separated' = Some(SepResult(content, SepLocals))
  /\ UNCHANGED <<content, pos, ingredientLines, methodLines, foundBlankLine, inMethod, bucketHist,
                 varsTitle, varsLabel, varsCombine, varsParse>>

NextSeparate == SeparateLine \/ SeparateReturn
SpecSeparate == InitSeparate /\ [][NextSeparate]_vars

(***************************************************************************)
(* parseRecipes, one input line per step, then main                        *)
(***************************************************************************)
MaxLines == 5
ParseLines ==
  { <<"I", "N", "D", "E", "X">>, <<"A">>, <<"S", "o", "p", "a", " ", "d", "e", " ", "a", "j", "o", " ", "·", " ", "1", "2">>, <<" ", "S", "O", "P", "A", " ", "D", "E", " ", "A", "J", "O", " ", "X", "E", " ", "\"", "s", "o", "p", "a", "\"", " ">>, <<>>,
    <<"2", " ", "t", "a", "z", "a", "s", " ", "d", "e", " ", "a", "g", "u", "a">>, <<"H", "e", "r", "v", "i", "r", " ", "e", "l", " ", "a", "g", "u", "a", ".">> }

ParseLocals == [inIndex |-> inIndex, recipes |-> recipes, currentRecipe |-> currentRecipe]
RawOf(cur) == IF cur = None THEN <<>> ELSE cur[1].rawContent

Init ==
  /\ consumed = <<>> /\ modeHist = <<>>
  /\ inIndex = TRUE /\ currentRecipe = None /\ recipes = <<>>
  /\ processedRecipes = None
  /\ ppc = "reading"
  /\ IdleTitle /\ IdleLabel /\ IdleCombine /\ IdleSep

ReadLine ==
  /\ ppc = "reading"
  /\ Len(consumed) < MaxLines
  /\ \E line \in ParseLines : \E st \in {ParseLine(ParseLocals, line)} :
           /\ inIndex' = st.inIndex
           /\ recipes' = st.recipes
           /\ currentRecipe' = st.currentRecipe
           /\ consumed' = Append(consumed, line)
           /\ modeHist' = Append(modeHist,
                [before |-> inIndex, after |-> st.inIndex,
                 title |-> isRecipeTitle(trim(line)),
                 appended |-> Len(RawOf(st.currentRecipe)) > Len(RawOf(currentRecipe))])
  /\ UNCHANGED <<processedRecipes, ppc, varsTitle, varsLabel, varsCombine, varsSep>>

EndOfStream ==
  /\ ppc = "reading"
  /\ recipes' = PushCurrent(recipes, currentRecipe)
  /\ ppc' = "returned"
  /\ UNCHANGED <<consumed, modeHist, inIndex, currentRecipe, processedRecipes,
                 varsTitle, varsLabel, varsCombine, varsSep>>

ProcessRecipes ==
  /\ ppc = "returned"
  /\ processedRecipes' = Some([i \in 1..Len(recipes) |-> ProcessRecipe(recipes[i])])
  /\ ppc' = "done"
  /\ UNCHANGED <<consumed, modeHist, inIndex, currentRecipe, recipes,
                 varsTitle, varsLabel, varsCombine, varsSep>>

Next == ReadLine \/ EndOfStream \/ ProcessRecipes
Spec == Init /\ [][Next]_vars

(***************************************************************************)
(* combineIngredients: the first loop one ingredient per step, then the    *)
(* second loop and the sort                                                *)
(***************************************************************************)
MaxOccurrences == 3

Ingredient(id, name, lbl, img, quantity) ==
  [id |-> id, name |-> name, label |-> lbl, imageUrl |-> img, quantity |-> quantity]

\* an ingredient of a recipe: [recipeTitle, ing]
Occurrences ==
  { [recipeTitle |-> "R1", ing |-> Ingredient("i1", <<"g", "a", "r", "l", "i", "c">>, <<"G", "a", "r", "l", "i", "c", " ", "(", "2", "0", "g", ")">>, "g.png", 2)],
    [recipeTitle |-> "R2", ing |-> Ingredient("i2", <<"g", "a", "r", "l", "i", "c">>, <<"G", "a", "r", "l", "i", "c", " ", "c", "l", "o", "v", "e", " ", "x", "3">>, "undefined", 3)],
    [recipeTitle |-> "R1", ing |-> Ingredient("i3", <<"g", "a", "r", "l", "i", "c">>, <<"G", "a", "r", "l", "i", "c", " ", "(", "0", ".", "5", ")">>, "g2.png", 3)],
    [recipeTitle |-> "R2", ing |-> Ingredient("i4", <<"g", "a", "r", "l", "i", "c">>, <<"G", "a", "r", "l", "i", "c", " ", "(", "1", ".", "5", "K", "G", ")">>, "g.png", 1)],
    [recipeTitle |-> "R1", ing |-> Ingredient("i5", <<"G", "a", "r", "l", "i", "c">>, <<"G", "a", "r", "l", "i", "c", " ", "(", "2", " ", "p", "c", ")">>, "g.png", 1)],
    [recipeTitle |-> "R2", ing |-> Ingredient("i6", <<"o", "n", "i", "o", "n">>, <<"R", "e", "d", " ", "o", "n", "i", "o", "n">>, "o.png", 1)],
    [recipeTitle |-> "R1", ing |-> Ingredient("i7", <<"o", "n", "i", "o", "n">>, <<"2", " ", "r", "e", "d", " ", "o", "n", "i", "o", "n", "s">>, "o.png", 2)],
    [recipeTitle |-> "R3", ing |-> Ingredient("i8", <<"c", "h", "i", "c", "k", "e", "n">>, <<"C", "h", "i", "c", "k", "e", "n", " ", "b", "r", "e", "a", "s", "t", " ", "s", "t", "r", "i", "p", "s", " ", "(", "2", "5", "0", "g", ")">>, "c.png", 3)],
    [recipeTitle |-> "R3", ing |-> Ingredient("i9", <<"p", "o", "t", "a", "t", "o">>, <<"W", "h", "i", "t", "e", " ", "p", "o", "t", "a", "t", "o", " ", "x", "4">>, "p.png", 4)] }

InitCombine ==
  /\ ingredientLists = <<>> /\ grouped = <<>> /\ result = None
  /\ cpc = "grouping"
  /\ IdleTitle /\ IdleLabel /\ IdleParse /\ IdleSep

\* the argument, with one more ingredient: in the last list when that is the recipe's
AddToLists(lists, o) ==
  IF lists # <<>> /\ lists[Len(lists)].recipeTitle = o.recipeTitle
  THEN [lists EXCEPT ![Len(lists)].ingredients = Append(@, o.ing)]
  ELSE Append(lists, [recipeTitle |-> o.recipeTitle, ingredients |-> <<o.ing>>])

\* the ingredients of the argument, in the order the first loop visits them
Flatten(lists) ==
  Concat([l \in 1..Len(lists) |->
            [i \in 1..Len(lists[l].ingredients) |->
               [recipeTitle |-> lists[l].recipeTitle, ing |-> lists[l].ingredients[i]]]])

GroupNext ==
  /\ cpc = "grouping"
  /\ Len(Flatten(ingredientLists)) < MaxOccurrences
  /\ \E o \in Occurrences :
       /\ ingredientLists' = AddToLists(ingredientLists, o)
       /\ grouped' = GroupIngredient(grouped, o.recipeTitle, o.ing)
  /\ UNCHANGED <<result, cpc, varsTitle, varsLabel, varsParse, varsSep>>

Combine ==
  /\ cpc = "grouping"
  /\ result' = Some(CombineAll(grouped))
  /\ cpc' = "done"
  /\ UNCHANGED <<ingredientLists, grouped, varsTitle, varsLabel, varsParse, varsSep>>

NextCombine == GroupNext \/ Combine
SpecCombine == InitCombine /\ [][NextCombine]_vars

(***************************************************************************)
(* Properties                                                              *)
(***************************************************************************)
HasText(r, f) == f \in DOMAIN r /\ r[f] # <<>>

\* C1: every recipe that parseRecipes emits and main processes has exactly one of the
\* two shapes: content alone, non-empty, or ingredientes and metodo together, both
\* non-empty; never both shapes and never neither.
C1_ExactlyOneShape ==
  processedRecipes # None =>
    \A i \in 1..Len(processedRecipes[1]) :
      LET r == processedRecipes[1][i]
          contentShape == HasText(r, "content") /\ "ingredientes" \notin DOMAIN r /\ "metodo" \notin DOMAIN r
          splitShape == HasText(r, "ingredientes") /\ HasText(r, "metodo") /\ "content" \notin DOMAIN r
      IN  contentShape # splitShape

\* a run that ends with a recipe in the split shape, parsed after index lines
C1_Witness ==
  /\ processedRecipes # None
  /\ \E i \in 1..Len(processedRecipes[1]) :
       HasText(processedRecipes[1][i], "ingredientes") /\ HasText(processedRecipes[1][i], "metodo")
  /\ modeHist[1].after

RECURSIVE SumAmounts(_)
SumAmounts(qs) == IF qs = <<>> THEN 0 ELSE Head(qs).amount + SumAmounts(Tail(qs))

\* C2: the totalAmount of every row combineIngredients returns is the sum of the
\* amounts of the row's quantities.
C2_TotalIsSum ==
  result # None =>
    \A r \in 1..Len(result[1]) : result[1][r].totalAmount = SumAmounts(result[1][r].quantities)

\* a row of a name with several units that sums two different amounts
C2_Witness ==
  /\ result # None
  /\ \E r \in 1..Len(result[1]) :
       /\ Len(result[1][r].quantities) >= 2
       /\ result[1][r].quantities[1].amount # result[1][r].quantities[2].amount
       /\ \E r2 \in 1..Len(result[1]) :
            r2 # r /\ result[1][r2].quantities[1].originalLabel = <<"G", "a", "r", "l", "i", "c", " ", "c", "l", "o", "v", "e", " ", "x", "3">>

\* the occurrences of the argument, and the (name, normalized unit) pair of each: the
\* unit of its label, canonical, and pcs when it is no weight or volume
Occs == Flatten(ingredientLists)
UnitOfLabel(lbl) ==
  LET u == normalizeUnit(parseQuantityFromLabel(lbl).unit)
  IN  IF u \in measuredUnits THEN u ELSE <<"p", "c", "s">>
KeyOf(o) == [name |-> o.ing.name, unit |-> UnitOfLabel(o.ing.label)]
Keys == {KeyOf(Occs[i]) : i \in 1..Len(Occs)}
\* the occurrences of a pair, in input order
Members(key) == SelectSeq(Occs, LAMBDA o : KeyOf(o) = key)
\* the row of a pair: it carries the pair's unit and the pair's name, bare or with the unit
RowIsOf(row, key) ==
  /\ row.unit = key.unit
  /\ row.name \in {key.name, key.name \o <<" ", "(">> \o key.unit \o <<")">>}
  /\ Len(row.quantities) = Len(Members(key))
  /\ \A i \in 1..Len(row.quantities) : row.quantities[i].originalLabel = Members(key)[i].ing.label

\* C3: the rows partition the occurrences by (name, normalized unit): one row for
\* each pair of the input, holding one quantities entry for each occurrence of the
\* pair and for no other occurrence.
C3_RowsPartitionOccurrences ==
  result # None =>
    /\ Len(result[1]) = Cardinality(Keys)
    /\ \A key \in Keys : \E r \in 1..Len(result[1]) : RowIsOf(result[1][r], key)
    /\ \A r \in 1..Len(result[1]) : \E key \in Keys : RowIsOf(result[1][r], key)
    /\ \A r \in 1..Len(result[1]) : \A i \in 1..Len(result[1][r].quantities) :
         UnitOfLabel(result[1][r].quantities[i].originalLabel) = result[1][r].unit

\* one name with two units, and a second name that differs from it only by case
C3_Witness ==
  /\ result # None
  /\ \E k1 \in Keys : \E k2 \in Keys : \E k3 \in Keys :
       /\ k1.name = k2.name /\ k1.unit # k2.unit
       /\ k3.name # k1.name /\ toLowerCase(k3.name) = toLowerCase(k1.name)

\* C4: an occurrence contributes the amount of its label times its quantity when the
\* label is pack-based, and its quantity when the label is count-based.
C4_ContributedAmount ==
  result # None =>
    \A key \in Keys : \E r \in 1..Len(result[1]) :
      /\ RowIsOf(result[1][r], key)
      /\ \A i \in 1..Len(Members(key)) :
           LET o == Members(key)[i].ing
               q == parseQuantityFromLabel(o.label)
           IN  result[1][r].quantities[i].amount =
                 IF q.isPackBased THEN q.amount * o.quantity ELSE o.quantity * AmountScale

\* the two examples: "(250g)" with quantity 3 contributes 750, "x4" with quantity 4
\* contributes 4
C4_Witness ==
  /\ result # None
  /\ \E r \in 1..Len(result[1]) :
       /\ result[1][r].quantities[1].originalLabel = <<"C", "h", "i", "c", "k", "e", "n", " ", "b", "r", "e", "a", "s", "t", " ", "s", "t", "r", "i", "p", "s", " ", "(", "2", "5", "0", "g", ")">>
       /\ result[1][r].quantities[1].amount = 750 * AmountScale
  /\ \E r \in 1..Len(result[1]) :
       /\ result[1][r].quantities[1].originalLabel = <<"W", "h", "i", "t", "e", " ", "p", "o", "t", "a", "t", "o", " ", "x", "4">>
       /\ result[1][r].quantities[1].amount = 4 * AmountScale
  /\ \E i \in 1..Len(Occs) : Occs[i].ing.quantity = 4
  /\ \E i \in 1..Len(Occs) : Occs[i].ing.quantity = 3

\* the positions of the cleaned label where each pattern matches
CleanedLabel == stripX0(label)
ParenUnitHits == {p \in 1..Len(CleanedLabel) : ParenUnitAt(CleanedLabel, p) # None}
ParenNumHits == {p \in 1..Len(CleanedLabel) : ParenNumAt(CleanedLabel, p) # None}
XSuffixHits == {p \in 1..Len(CleanedLabel) : XSuffixAt(CleanedLabel, p) # None}
LeadingNumHit == LeadingNum(CleanedLabel) # None
Leftmost(S) == CHOOSE p \in S : \A q \in S : p <= q

\* C5: parseQuantityFromLabel strips a trailing x0 and then lets the first matching
\* pattern win, in the order: number and unit in parentheses (pack-based, that unit),
\* bare number in parentheses (pack-based, pcs), trailing xN (count-based, pcs), leading
\* number (pack-based, pcs); a label that matches none yields amount 1, pcs, count-based,
\* and every label yields a result.
C5_PatternPrecedence ==
  parsed # None =>
    LET r == parsed[1]
    IN  /\ DOMAIN r = {"amount", "unit", "isPackBased"}
        /\ ParenUnitHits # {} =>
             /\ r.isPackBased
             /\ r.unit = ParenUnitAt(CleanedLabel, Leftmost(ParenUnitHits))[1].unit
             /\ r.unit \in ParenUnits
             /\ r.amount = ParenUnitAt(CleanedLabel, Leftmost(ParenUnitHits))[1].amount
        /\ ParenUnitHits = {} /\ ParenNumHits # {} =>
             /\ r.isPackBased /\ r.unit = <<"p", "c", "s">>
             /\ r.amount = ParenNumAt(CleanedLabel, Leftmost(ParenNumHits))[1].amount
        /\ ParenUnitHits = {} /\ ParenNumHits = {} /\ XSuffixHits # {} =>
             /\ ~r.isPackBased /\ r.unit = <<"p", "c", "s">>
             /\ r.amount = XSuffixAt(CleanedLabel, Leftmost(XSuffixHits))[1].amount
        /\ ParenUnitHits = {} /\ ParenNumHits = {} /\ XSuffixHits = {} /\ LeadingNumHit =>
             /\ r.isPackBased /\ r.unit = <<"p", "c", "s">>
             /\ r.amount = LeadingNum(CleanedLabel)[1].amount
        /\ ParenUnitHits = {} /\ ParenNumHits = {} /\ XSuffixHits = {} /\ ~LeadingNumHit =>
             /\ ~r.isPackBased /\ r.unit = <<"p", "c", "s">> /\ r.amount = 1 * AmountScale

\* a label with a trailing x0 to strip on which the first and the third pattern match
C5_Witness ==
  /\ parsed # None
  /\ CleanedLabel # label
  /\ ParenUnitHits # {} /\ XSuffixHits # {}
  /\ parsed[1].isPackBased

\* modeHist[i] records, for the i-th line read: inIndex before and after it, whether
\* isRecipeTitle holds of it (trimmed), and whether it was appended to a body.
\* C6 as claimed: the mode starts as index mode, leaves it at the first line that
\* isRecipeTitle classifies as a title, never returns to it, and no line read in index
\* mode is appended to a recipe body.
ModeOneWay == \A i \in 1..Len(modeHist) : ~modeHist[i].before => ~modeHist[i].after
ModeChained ==
  /\ \A i \in 1..Len(modeHist) : modeHist[i].before = (IF i = 1 THEN TRUE ELSE modeHist[i - 1].after)
  /\ inIndex = (IF modeHist = <<>> THEN TRUE ELSE modeHist[Len(modeHist)].after)
IndexLinesDropped == \A i \in 1..Len(modeHist) : modeHist[i].before => ~modeHist[i].appended
C6_FlipsAtFirstTitle ==
  /\ ModeChained /\ ModeOneWay /\ IndexLinesDropped
  /\ \A i \in 1..Len(modeHist) :
       modeHist[i].after = (\A j \in 1..i : ~modeHist[j].title)

\* C6, amended: the mode leaves index mode at the first line that isRecipeTitle
\* classifies as a title and that does not begin with INDEX (in index mode the header
\* line is skipped before the title test); the rest as claimed.
C6_FlipsAtFirstTitleNotHeader ==
  /\ ModeChained /\ ModeOneWay /\ IndexLinesDropped
  /\ \A i \in 1..Len(modeHist) :
       modeHist[i].after =
         (\A j \in 1..i : ~(modeHist[j].title /\ ~startsWith(trim(consumed[j]), IndexHeader)))

\* the header and an index entry are skipped in index mode, a title ends it, and then a
\* header and an index entry are read in content mode: both join the body or open a recipe
C6_Witness ==
  \E i \in 1..Len(modeHist) : \E j \in 1..Len(modeHist) : \E k \in 1..Len(modeHist) : \E l \in 1..Len(modeHist) :
    /\ i < j /\ j < k /\ k < l
    /\ consumed[i] = IndexHeader /\ modeHist[i].after
    /\ modeHist[j].before /\ ~modeHist[j].after
    /\ isIndexEntry(trim(consumed[k])) /\ modeHist[k].appended
    /\ consumed[l] = IndexHeader /\ ~modeHist[l].after

\* the lines of the body that went to a bucket, trimmed, in body order
Bucketed(b) ==
  LET hits == SelectSeq(bucketHist, LAMBDA h : h.bucket = b)
  IN  [i \in 1..Len(hits) |-> trim(hits[i].line)]

\* C7: the section of separateContent is one-way: it starts collecting ingredients, and
\* once it is the method section it stays so; no line after the switch joins the
\* ingredient lines, whatever looksLikeIngredient says of it, and every ingredient line
\* precedes every method line.
C7_MethodIsOneWay ==
  /\ bucketHist = <<>> => ~inMethod
  /\ inMethod = (bucketHist # <<>> /\ bucketHist[Len(bucketHist)].inMethod)
  /\ ingredientLines = Bucketed("ingredient") /\ methodLines = Bucketed("method")
  /\ \A i \in 1..Len(bucketHist) : \A j \in 1..Len(bucketHist) :
       /\ i < j /\ bucketHist[i].inMethod => bucketHist[j].inMethod /\ bucketHist[j].bucket # "ingredient"
       /\ bucketHist[i].bucket = "ingredient" /\ bucketHist[j].bucket = "method" => i < j

\* ingredients, the switch, a blank line, and then a line that looks like an ingredient
\* and joins the method lines
C7_Witness ==
  \E i \in 1..Len(bucketHist) : \E j \in 1..Len(bucketHist) : \E k \in 1..Len(bucketHist) :
    /\ i < j /\ j < k
    /\ bucketHist[1].bucket = "ingredient"
    /\ bucketHist[i].inMethod
    /\ trim(bucketHist[j].line) = <<>>
    /\ looksLikeIngredient(bucketHist[k].line) /\ bucketHist[k].bucket = "method"

\* the share of upper-case letters among the letters of s is at least num / den
UpperShareAtLeast(s, num, den) ==
  LET upper == Cardinality({i \in 1..Len(s) : s[i] \in Range(UpperAZ) \cup Range(UpperAccented)})
      lower == Cardinality({i \in 1..Len(s) : s[i] \in Range(LowerAZ) \cup Range(LowerAccented)})
  IN  upper + lower > 0 /\ den * upper >= num * (upper + lower)

\* C8: a line, as parseRecipes hands it to isRecipeTitle, is a title exactly when,
\* with its XE "..." markers stripped, it has at least 3 characters and at least 0.70 of
\* its letters are upper case; except that a line that matches the index-entry pattern
\* is never a title.
C8_TitleIff ==
  tResult # None =>
    LET line == trim(tLine)
    IN  tResult[1] =
          IF isIndexEntry(line) THEN FALSE
          ELSE Len(stripXE(line)) >= 3 /\ UpperShareAtLeast(stripXE(line), 7, 10)

\* a title with a marker to strip in which exactly 7 letters in 10 are upper case
C8_Witness ==
  /\ tResult = Some(TRUE)
  /\ stripXE(trim(tLine)) # trim(tLine)
  /\ Cardinality({i \in 1..Len(stripXE(trim(tLine))) : IsUpperLetter(stripXE(trim(tLine))[i])}) = 7
  /\ Cardinality({i \in 1..Len(stripXE(trim(tLine))) : IsLowerLetter(stripXE(trim(tLine))[i])}) = 3

\* the titles read in content mode, the body of each and the ones with a body
FirstContentLine ==
  IF \E i \in 1..Len(modeHist) : ~modeHist[i].after
  THEN CHOOSE i \in 1..Len(modeHist) : ~modeHist[i].after /\ \A j \in 1..(i - 1) : modeHist[j].after
  ELSE Len(consumed) + 1
TitleLines == {t \in FirstContentLine..Len(consumed) : modeHist[t].title}
FollowingTitle(t) ==
  IF \E u \in TitleLines : u > t
  THEN CHOOSE u \in TitleLines : u > t /\ \A v \in TitleLines : v > t => u <= v
  ELSE Len(consumed) + 1
BodyOf(t) == Concat([k \in 1..(FollowingTitle(t) - t - 1) |-> consumed[t + k] \o <<"\n">>])
IsBlank(s) == \A i \in 1..Len(s) : s[i] \in WhiteSpace
EmittedTitles == {t \in TitleLines : ~IsBlank(BodyOf(t))}

\* C9: parseRecipes returns the recipes in the order of their title lines; a title read
\* in content mode yields a recipe exactly when its body is not blank, the body being
\* the lines up to the next title or the end of the stream, each as read and followed
\* by a newline; a title with a blank body is dropped, the last one included.
C9_RecipesAreTitledBodies ==
  ppc \in {"returned", "done"} =>
    /\ Len(recipes) = Cardinality(EmittedTitles)
    /\ \A t \in EmittedTitles :
         LET k == Cardinality({u \in EmittedTitles : u <= t})
         IN  /\ recipes[k].rawContent = BodyOf(t)
             /\ recipes[k].title = cleanTitle(trim(consumed[t]))
             /\ recipes[k].slug = slugify(recipes[k].title)

\* a title directly followed by a title, a recipe with a body that holds a blank line,
\* and a last title at the end of the stream: one recipe is returned
C9_Witness ==
  /\ ppc = "returned"
  /\ Cardinality(TitleLines) = 3 /\ Cardinality(EmittedTitles) = 1
  /\ Len(consumed) \in TitleLines
  /\ \E t \in EmittedTitles : t - 1 \in TitleLines /\ \E k \in (t + 1)..(FollowingTitle(t) - 1) : consumed[k] = <<>>

\* parts, with sep between every two of them
Interleave(parts, sep) ==
  Concat([k \in 1..(2 * Len(parts) - 1) |-> IF k % 2 = 1 THEN parts[(k + 1) \div 2] ELSE sep])

\* C10: separateContent returns the split form, the ingredient lines joined by one
\* newline and the method lines joined by a blank line, exactly when it collected at
\* least 2 ingredient lines and at least 1 method line; otherwise it returns content
\* alone, the trimmed raw body; and no blank line is ever placed in a bucket.
C10_SplitIffEnoughLines ==
  /\ \A i \in 1..Len(bucketHist) : IsBlank(bucketHist[i].line) => bucketHist[i].bucket = "neither"
  /\ \A i \in 1..Len(ingredientLines) : ~IsBlank(ingredientLines[i])
  /\ \A i \in 1..Len(methodLines) : ~IsBlank(methodLines[i])
  /\ separated # None =>
       IF Len(Bucketed("ingredient")) >= 2 /\ Len(Bucketed("method")) >= 1
       THEN /\ DOMAIN separated[1] = {"ingredientes", "metodo"}
            /\ separated[1].ingredientes = Interleave(Bucketed("ingredient"), <<"\n">>)
            /\ separated[1].metodo = Interleave(Bucketed("method"), <<"\n", "\n">>)
       ELSE /\ DOMAIN separated[1] = {"content"}
            /\ separated[1].content = trim(content)

\* a body with exactly 2 ingredient lines, a blank line and a method line: split
C10_Witness ==
  /\ separated # None
  /\ "metodo" \in DOMAIN separated[1]
  /\ Len(Bucketed("ingredient")) = 2 /\ Len(Bucketed("method")) = 1
  /\ \E i \in 2..(Len(bucketHist) - 1) : IsBlank(bucketHist[i].line)

\* the non-blank lines read so far, trimmed, in body order
NonBlankRead ==
  LET hits == SelectSeq(bucketHist, LAMBDA h : ~IsBlank(h.line))
  IN  [i \in 1..Len(hits) |-> trim(hits[i].line)]
\* the length of the longest prefix of ls whose lines all pass looksLikeIngredient
IngredientPrefix(ls) ==
  CHOOSE k \in 0..Len(ls) :
    /\ \A i \in 1..k : looksLikeIngredient(ls[i])
    /\ k < Len(ls) => ~looksLikeIngredient(ls[k + 1])
\* ls with a blank line before every line and one after the last
BlankAround(ls) == [k \in 1..(2 * Len(ls) + 1) |-> IF k % 2 = 0 THEN ls[k \div 2] ELSE <<>>]
SameBuckets(a, b) ==
  a.ingredientLines = b.ingredientLines /\ a.methodLines = b.methodLines /\ a.inMethod = b.inMethod

\* C11: the blank-line flag of separateContent never changes the bucket of a line: the
\* ingredient lines are the longest prefix of the non-blank trimmed lines that pass
\* looksLikeIngredient and the method lines are the other non-blank lines, in order;
\* the same lines are collected with every blank line removed and with blank lines
\* added around every line; and a next line goes the same way with the flag set or not.
C11_BlankLinesNeverMatter ==
  /\ ingredientLines = SubSeq(NonBlankRead, 1, IngredientPrefix(NonBlankRead))
  /\ methodLines = SubSeq(NonBlankRead, IngredientPrefix(NonBlankRead) + 1, Len(NonBlankRead))
  /\ \A line \in BodyLines :
       SameBuckets(SepLine([SepLocals EXCEPT !.foundBlankLine = TRUE], line),
                   SepLine([SepLocals EXCEPT !.foundBlankLine = FALSE], line))
  /\ separated # None =>
       /\ SameBuckets(SepLoop(SepStart, NonBlankRead), SepLocals)
       /\ SameBuckets(SepLoop(SepStart, BlankAround(NonBlankRead)), SepLocals)

\* an ingredient line, a blank line that sets the flag, a line that looks like an
\* ingredient and stays with the ingredients, and then a method line
C11_Witness ==
  /\ separated # None /\ foundBlankLine
  /\ Len(methodLines) >= 1
  /\ \E i \in 1..Len(bucketHist) : \E j \in 1..Len(bucketHist) : \E k \in 1..Len(bucketHist) :
       /\ i < j /\ j < k
       /\ bucketHist[i].bucket = "ingredient"
       /\ IsBlank(bucketHist[j].line)
       /\ bucketHist[k].bucket = "ingredient"
====
